---- MODULE Spec2Model ----
(***************************************************************************)
(* BhoolamMind: the record store (SQLite table interactions), the          *)
(* embedding index (ChromaDB collection bhoola_memories), the retrieval    *)
(* engine and the ingestion path of src/modules/memory_injector.py,        *)
(* src/modules/database.py and src/run_bhoolamind.py, the soft delete of   *)
(* src/modules/ai_delete_protection.py and the prompt assembly of          *)
(* src/modules/rag_engine.py.                                              *)
(*                                                                         *)
(* Texts are TLA+ strings.  Timestamps are whole seconds of a model clock; *)
(* a similarity is a fixed-point number with SimScale units for 1.0.       *)
(***************************************************************************)
EXTENDS Integers, Sequences, FiniteSets, TLC

\* ------------------------------------------------------------------ bounds
\* rows the live table may hold in the memory specification
MaxRows == 1
\* documents the embedding collection may hold
MaxDocs == 2
\* clock advances in a behaviour
MaxTicks == 1
\* the largest max_memories / limit a call asks for
MaxLimit == 2
\* seconds of one model day (the code's day has 86400)
SecondsPerDay == 2
\* ids the live table may assign in the delete specification
MaxIds == 4
\* the largest frequency a pattern is counted to
MaxFrequency == 3
\* microseconds of one model second (the code's second has 1000000)
MicrosPerSecond == 2

\* ------------------------------------------------------- program constants
\* similarity_thresholds["topical"] = 0.7, in SimScale units
TopicalThreshold == 700
\* similarity *= 0.7 : numerator and denominator of the penalty
PenaltyNum == 7
PenaltyDen == 10
\* 1.0 in fixed point (similarity = 1.0 - distance)
SimScale == 1000
\* inject_context_memories: days_back of the topical and of the emotional path
TopicalDays == 30
EmotionalDays == 14
\* sync_sql_to_vector_db(days_back = 7)
SyncDays == 7
\* x.get('similarity', 0): the sort key of an entry that carries no similarity
DefaultSortKey == 0
\* RAGConfig.max_context_length
MaxContextLength == 4000

\* SQL NULL and Python None in a text column or argument
NULL == "NULL"

\* ------------------------------------------------------------ Python strings
UpperChars == "ABCDEFGHIJKLMNOPQRSTUVWXYZ"
LowerChars == "abcdefghijklmnopqrstuvwxyz"

CharAt(s, i) == SubSeq(s, i, i)

\* str.lower() of one character (ASCII letters)
LowerChar(c) ==
    IF \E i \in 1..Len(UpperChars) : CharAt(UpperChars, i) = c
    THEN CharAt(LowerChars, CHOOSE i \in 1..Len(UpperChars) : CharAt(UpperChars, i) = c)
    ELSE c

RECURSIVE StrLower(_)
\* str.lower()
StrLower(s) ==
    IF Len(s) = 0 THEN ""
    ELSE LowerChar(CharAt(s, 1)) \o StrLower(SubSeq(s, 2, Len(s)))

RECURSIVE SplitFrom(_, _, _)
\* the words of s from position i on; cur is the word being read
SplitFrom(s, i, cur) ==
    IF i > Len(s) THEN (IF cur = "" THEN << >> ELSE << cur >>)
    ELSE IF CharAt(s, i) = " "
         THEN (IF cur = "" THEN SplitFrom(s, i + 1, "")
               ELSE << cur >> \o SplitFrom(s, i + 1, ""))
         ELSE SplitFrom(s, i + 1, cur \o CharAt(s, i))

\* str.split(): the whitespace-separated words, none empty
StrSplit(s) == SplitFrom(s, 1, "")

\* Python's `word in text`
StrContains(text, word) ==
    \E i \in 1..(Len(text) - Len(word) + 1) : SubSeq(text, i, i + Len(word) - 1) = word

RECURSIVE SqlLike(_, _)
\* SQLite's  s LIKE p : % matches any run, _ any one character, letters
\* compare case-insensitively
SqlLike(s, p) ==
    IF Len(p) = 0 THEN Len(s) = 0
    ELSE IF CharAt(p, 1) = "%"
         THEN \E k \in 1..(Len(s) + 1) : SqlLike(SubSeq(s, k, Len(s)), SubSeq(p, 2, Len(p)))
         ELSE /\ Len(s) > 0
              /\ \/ CharAt(p, 1) = "_"
                 \/ LowerChar(CharAt(s, 1)) = LowerChar(CharAt(p, 1))
              /\ SqlLike(SubSeq(s, 2, Len(s)), SubSeq(p, 2, Len(p)))

\* ------------------------------------------------- str() and eval() of a row
Digits == "0123456789"
Quote == "'"
DoubleQuote == "\""
Backslash == "\\"

RECURSIVE IntToStr(_)
\* str(n) of a non-negative int
IntToStr(n) ==
    IF n < 10 THEN CharAt(Digits, n + 1)
    ELSE IntToStr(n \div 10) \o CharAt(Digits, (n % 10) + 1)

\* text[:n]
Prefix(text, n) == SubSeq(text, 1, IF n < Len(text) THEN n ELSE Len(text))

RECURSIVE Escape(_)
\* the body of a single-quoted repr: a backslash before every ' and backslash
Escape(s) ==
    IF Len(s) = 0 THEN ""
    ELSE IF Len(s) = 1
         THEN (IF s = Quote \/ s = Backslash THEN Backslash \o s ELSE s)
         ELSE Escape(SubSeq(s, 1, Len(s) \div 2))
                \o Escape(SubSeq(s, (Len(s) \div 2) + 1, Len(s)))

\* repr(s) of a str: double quotes when s holds ' and no ", single quotes and
\* escapes otherwise
ReprStr(s) ==
    IF StrContains(s, Quote) /\ ~StrContains(s, DoubleQuote)
    THEN DoubleQuote \o s \o DoubleQuote
    ELSE Quote \o Escape(s) \o Quote

\* repr of a TEXT column that may hold NULL
ReprOpt(s) == IF s = NULL THEN "None" ELSE ReprStr(s)

\* str(interaction_data): the row SELECT * fetched, as Python prints the tuple
StrOfRow(r) ==
    "(" \o IntToStr(r.id) \o ", " \o ReprStr(r.text) \o ", " \o ReprOpt(r.source)
        \o ", " \o ReprOpt(r.tags) \o ", " \o ReprOpt(r.emotion) \o ", " \o ReprOpt(r.mood)
        \o ", " \o IntToStr(r.intensity) \o ", " \o IntToStr(r.bit_worthy)
        \o ", " \o IntToStr(r.timestamp) \o ", " \o IntToStr(r.created_at) \o ")"

\* a literal that could not be read
ParseError == [ok |-> FALSE, val |-> NULL, next |-> 0]

\* the backslashes of s that stand right before position j, none before i
BackslashRun(s, i, j) ==
    CHOOSE k \in 0..(j - i) :
        /\ \A m \in 1..k : CharAt(s, j - m) = Backslash
        /\ (k = j - i \/ CharAt(s, j - k - 1) /= Backslash)

\* the character at j of a literal whose body starts at i is escaped
Escaped(s, i, j) == BackslashRun(s, i, j) % 2 = 1

RECURSIVE Unescape(_, _, _, _)
\* the characters lo..hi of the body that starts at i, the escaping
\* backslashes taken out
Unescape(s, i, lo, hi) ==
    IF lo > hi THEN ""
    ELSE IF lo = hi
         THEN (IF CharAt(s, lo) = Backslash /\ ~Escaped(s, i, lo) THEN "" ELSE CharAt(s, lo))
         ELSE Unescape(s, i, lo, (lo + hi) \div 2)
                \o Unescape(s, i, ((lo + hi) \div 2) + 1, hi)

\* the string literal of s whose body starts at i and whose quote is q
ParseStr(s, i, q) ==
    LET closing == { j \in i..Len(s) : CharAt(s, j) = q /\ ~Escaped(s, i, j) }
    IN  IF closing = {} THEN ParseError
        ELSE LET j == CHOOSE c \in closing : \A d \in closing : c <= d
             IN  [ok |-> TRUE, val |-> Unescape(s, i, i, j - 1), next |-> j + 1]

IsDigit(c) == \E k \in 1..Len(Digits) : CharAt(Digits, k) = c
DigitValue(c) == (CHOOSE k \in 1..Len(Digits) : CharAt(Digits, k) = c) - 1

RECURSIVE ParseInt(_, _, _)
\* the int literal of s that starts at i
ParseInt(s, i, acc) ==
    IF i <= Len(s) /\ IsDigit(CharAt(s, i))
    THEN ParseInt(s, i + 1, acc * 10 + DigitValue(CharAt(s, i)))
    ELSE [ok |-> TRUE, val |-> acc, next |-> i]

\* the literal of s that starts at i: a str, None or an int
ParseValue(s, i) ==
    IF i > Len(s) THEN ParseError
    ELSE IF CharAt(s, i) = Quote \/ CharAt(s, i) = DoubleQuote
         THEN ParseStr(s, i + 1, CharAt(s, i))
    ELSE IF i + 3 <= Len(s) /\ SubSeq(s, i, i + 3) = "None"
         THEN [ok |-> TRUE, val |-> NULL, next |-> i + 4]
    ELSE IF IsDigit(CharAt(s, i)) THEN ParseInt(s, i, 0)
    ELSE ParseError

RECURSIVE ParseItems(_, _, _)
\* the items of the tuple display of s from i on, up to its closing bracket
ParseItems(s, i, acc) ==
    LET v == ParseValue(s, i)
    IN  IF ~v.ok \/ v.next > Len(s) THEN [ok |-> FALSE, val |-> << >>]
        ELSE IF CharAt(s, v.next) = ")"
             THEN [ok |-> v.next = Len(s), val |-> Append(acc, v.val)]
        ELSE IF v.next + 1 <= Len(s) /\ SubSeq(s, v.next, v.next + 1) = ", "
             THEN ParseItems(s, v.next + 2, Append(acc, v.val))
        ELSE [ok |-> FALSE, val |-> << >>]

\* eval(s) of the text a tuple was printed to: [ok, val]; ok is FALSE when
\* eval raises
Eval(s) ==
    IF Len(s) >= 2 /\ CharAt(s, 1) = "(" THEN ParseItems(s, 2, << >>)
    ELSE [ok |-> FALSE, val |-> << >>]

\* ------------------------------------------------------------------- state
VARIABLES
    interactions,          \* table interactions: the live rows
    seq,                   \* sqlite_sequence of interactions: the largest id assigned
    written,               \* history: every row an INSERT INTO interactions has written
    deleted_interactions,  \* table deleted_interactions, in rowid order
    backups,               \* the backup files written under backups/
    protection_enabled,    \* AIDeleteProtection.protection_enabled
    memory_patterns,       \* table memory_patterns
    weekly_summaries,      \* table weekly_summaries, in rowid order
    collection,            \* ChromaDB collection bhoola_memories: the documents
    embedding_model,       \* MemoryInjector.embedding_model is loaded
    memory_collection,     \* MemoryInjector.memory_collection is open
    now,                   \* datetime.now(), in seconds
    ticks,                 \* clock advances so far
    pc,                    \* where the caller stands: idle, inside process_text_input
                           \* (vector_storage), or holding a retrieval result (returned)
    pending,               \* the interaction process_text_input has stored
    context_file,          \* BHOOLA_COPILOT_CONTEXT.md: absent, or its mtime and content
    updaters,              \* the update_pattern_frequency calls under way, per caller
    last                   \* the call that returned last, and what it returned

vars == << interactions, seq, written, deleted_interactions, backups, protection_enabled,
           collection, embedding_model, memory_collection, now, ticks, pc,
           pending, last, memory_patterns, weekly_summaries, context_file, updaters >>

Days(n) == n * SecondsPerDay

NoPending == [interaction_id |-> 0, text |-> "", emotion |-> NULL, tags |-> ""]
NoCall == [op |-> "none"]

\* ------------------------------------------------------------ record store
\* one row of interactions (src/modules/database.py, CREATE TABLE)
Row(id, text, source, tags, emotion, mood, intensity, bit_worthy, timestamp, created_at) ==
    [id |-> id, text |-> text, source |-> source, tags |-> tags, emotion |-> emotion,
     mood |-> mood, intensity |-> intensity, bit_worthy |-> bit_worthy,
     timestamp |-> timestamp, created_at |-> created_at]

\* an INSERT that numbers the row by the count of the live rows
InsertedRowCountsLive(text, source, tags, emotion, mood, intensity, bit_worthy, timestamp) ==
    Row(Cardinality(interactions) + 1, text, source, tags, emotion, mood, intensity,
        bit_worthy, timestamp, now)

\* INSERT INTO interactions ... : AUTOINCREMENT gives the id after the largest
\* ever assigned; created_at defaults to CURRENT_TIMESTAMP
InsertedRow(text, source, tags, emotion, mood, intensity, bit_worthy, timestamp) ==
    Row(seq + 1, text, source, tags, emotion, mood, intensity, bit_worthy, timestamp, now)

RECURSIVE OrderByTimestampDesc(_)
\* ORDER BY timestamp DESC; rows written in the same model second keep the
\* order of their microseconds, which is the order of their ids
OrderByTimestampDesc(rows) ==
    IF rows = {} THEN << >>
    ELSE LET r == CHOOSE x \in rows : \A y \in rows :
                    \/ x.timestamp > y.timestamp
                    \/ x.timestamp = y.timestamp /\ x.id >= y.id
         IN  << r >> \o OrderByTimestampDesc(rows \ {r})

\* LIMIT n
Limit(s, n) == SubSeq(s, 1, IF n < Len(s) THEN n ELSE Len(s))

\* ---------------------------------------------------------- embedding index
\* add_memory: doc_id = f"memory_{now:%Y%m%d_%H%M%S}_{interaction_id}"
AddDocId(t, interaction_id) == [fmt |-> "%Y%m%d_%H%M%S", t |-> t, id |-> interaction_id]

\* sync_sql_to_vector_db: doc_id = f"memory_{timestamp}_{interaction_id}", the
\* timestamp being the row's TEXT column, written by datetime.isoformat()
SyncDocId(timestamp, interaction_id) == [fmt |-> "isoformat", t |-> timestamp, id |-> interaction_id]

\* emotion or "neutral"
OrNeutral(emotion) == IF emotion = NULL \/ emotion = "" THEN "neutral" ELSE emotion
\* tags or ""
OrEmpty(tags) == IF tags = NULL THEN "" ELSE tags

DocIds(coll) == { d.doc_id : d \in coll }

\* add_memory(text, emotion, tags, interaction_id) on collection coll at time t:
\* [coll, ret].  encodeFails: embedding_model.encode raises.  dupRaises: this
\* ChromaDB raises on an id it already holds (others ignore the add); either
\* way the collection keeps its one document for the id.
AddMemory(coll, text, emotion, tags, interaction_id, t, encodeFails, dupRaises) ==
    IF ~embedding_model \/ ~memory_collection
    THEN [coll |-> coll, ret |-> FALSE]
    ELSE IF encodeFails
    THEN [coll |-> coll, ret |-> FALSE]
    ELSE LET doc == [doc_id |-> AddDocId(t, interaction_id),
                     text |-> text,
                     timestamp |-> t,
                     emotion |-> OrNeutral(emotion),
                     tags |-> OrEmpty(tags),
                     interaction_id |-> interaction_id]
         IN  IF doc.doc_id \in DocIds(coll)
             THEN [coll |-> coll, ret |-> ~dupRaises]
             ELSE [coll |-> coll \cup {doc}, ret |-> TRUE]

\* ------------------------------------------------------------------- inputs
TextPool == { "Bug tea", "bug nap" }
\* bhoola_mood as the emotion tagger reports it; NULL when it reports none
Moods == { NULL, "calm" }
Queries == { "bug", "TEA nap", "", "b_g" }
QueryEmotions == { NULL, "calm" }
\* raw distances the index may report, in SimScale units
Distances == { -200, 0, 200, 500 }
\* max_memories / limit of a call
Limits == 1..MaxLimit
IngestTexts == { "Bug tea" }
\* the three records and the query of the debugging scenario
ScenarioFirst == [text |-> "I love debugging at night", mood |-> "calm"]
ScenarioSecond == [text |-> "Stressful deadline today", mood |-> "anxious"]
ScenarioThird == [text |-> "Debugging marathon, so tired", mood |-> "tired"]
ScenarioRecords == { ScenarioFirst, ScenarioSecond, ScenarioThird }
ScenarioQuery == "debugging"
\* queries for the keyword search: three words of which one is in the second
\* record alone, and two words of which the first record holds one and the
\* third both
ScenarioFallbackQueries == { "deadline for taxes", "debugging marathon" }
\* config.max_context_length: a budget shorter than a query, and the default
ContextBudgets == { 5, MaxContextLength }
\* the records appended in the delete specification
DeleteRecords == { [text |-> "it's", tags |-> "tea,nap", emotion |-> "calm"],
                   [text |-> "a\\'\"", tags |-> NULL, emotion |-> NULL] }
\* reason = "AI request"
DefaultReason == "AI request"
\* an id no row ever had
UnknownId == 9999
\* the ids a delete or a restore is called with
DeleteIds == (1..MaxIds) \cup { UnknownId }
\* how far one clock advance may go
TickSteps == { 1, Days(EmotionalDays) + 1, Days(TopicalDays) + 1 }

\* ---- tables of the string functions over the strings the inputs hold,
\* so that each is computed once
KnownTexts == TextPool \cup IngestTexts \cup { rec.text : rec \in ScenarioRecords }
KnownQueries == Queries \cup { ScenarioQuery } \cup ScenarioFallbackQueries
LowerTable == [ t \in KnownTexts \cup KnownQueries |-> StrLower(t) ]
Lower(t) == IF t \in DOMAIN LowerTable THEN LowerTable[t] ELSE StrLower(t)
WordsTable == [ q \in KnownQueries |-> StrSplit(Lower(q)) ]
\* query_text.lower().split()
QueryWords(q) == IF q \in DOMAIN WordsTable THEN WordsTable[q] ELSE StrSplit(Lower(q))
KnownWords == UNION { { WordsTable[q][i] : i \in 1..Len(WordsTable[q]) } : q \in KnownQueries }
LikeTable == [ t \in KnownTexts, w \in KnownWords |-> SqlLike(Lower(t), "%" \o w \o "%") ]
\* LOWER(text) LIKE '%word%'
LowerLike(t, w) ==
    IF << t, w >> \in DOMAIN LikeTable THEN LikeTable[t, w]
    ELSE SqlLike(Lower(t), "%" \o w \o "%")
InTable == [ t \in KnownTexts, w \in KnownWords |-> StrContains(Lower(t), w) ]
\* word in text_lower
WordInLower(t, w) ==
    IF << t, w >> \in DOMAIN InTable THEN InTable[t, w] ELSE StrContains(Lower(t), w)

\* ---------------------------------------------------------------- retrieval
\* Python truthiness of an optional string argument (`if emotion`)
Given(emotion) == emotion /= NULL /\ emotion /= ""

\* one dict of a result list; has_similarity tells whether the dict carries
\* the key "similarity"
Entry(text, emotion, tags, timestamp, has_similarity, similarity, relevance_type) ==
    [text |-> text, emotion |-> emotion, tags |-> tags, timestamp |-> timestamp,
     has_similarity |-> has_similarity, similarity |-> similarity,
     relevance_type |-> relevance_type]

\* key=lambda x: x.get('similarity', 0)
SortKey(e) == IF e.has_similarity THEN e.similarity ELSE DefaultSortKey

RECURSIVE InsertDesc(_, _)
\* e put behind every element whose key is at least its own
InsertDesc(sorted, e) ==
    IF Len(sorted) = 0 THEN << e >>
    ELSE IF SortKey(sorted[1]) >= SortKey(e)
         THEN << sorted[1] >> \o InsertDesc(Tail(sorted), e)
         ELSE << e >> \o sorted

RECURSIVE SortFrom(_, _, _)
SortFrom(s, i, acc) ==
    IF i > Len(s) THEN acc ELSE SortFrom(s, i + 1, InsertDesc(acc, s[i]))

\* list.sort(key=similarity, reverse=True): stable, largest first
SortBySimilarityDesc(s) == SortFrom(s, 1, << >>)

\* similarity = 1.0 - distance
SimilarityOf(distance) == SimScale - distance

\* similarity *= 0.7 when an emotion is asked for and the document's differs
Penalised(similarity, emotion, docEmotion) ==
    IF Given(emotion) /\ docEmotion /= emotion
    THEN (similarity * PenaltyNum) \div PenaltyDen
    ELSE similarity

\* collection.query(n_results = k): the lists ChromaDB may return, the k
\* nearest documents by distance, nearest first, documents at the same
\* distance in any order
QueryResults(coll, dist, k) ==
    LET n == IF k < Cardinality(coll) THEN k ELSE Cardinality(coll)
    IN  { s \in [1..n -> coll] :
            /\ \A i, j \in 1..n : i < j => s[i] /= s[j] /\ dist[s[i].text] <= dist[s[j].text]
            /\ \A d \in coll : (\A i \in 1..n : s[i] /= d)
                                 => \A i \in 1..n : dist[s[i].text] <= dist[d.text] }

\* a loop that appends every result inside the window, whatever its similarity
SemanticFromKeepsAll(results, i, dist, emotion, cutoff) ==
    LET kept == SelectSeq(results, LAMBDA d : d.timestamp >= cutoff)
    IN  [ k \in 1..Len(kept) |->
            Entry(kept[k].text, kept[k].emotion, kept[k].tags, kept[k].timestamp, TRUE,
                  Penalised(SimilarityOf(dist[kept[k].text]), emotion, kept[k].emotion),
                  "semantic") ]

RECURSIVE SemanticFrom(_, _, _, _, _)
\* the loop of find_similar_memories over the query results
SemanticFrom(results, i, dist, emotion, cutoff) ==
    IF i > Len(results) THEN << >>
    ELSE LET d == results[i]
             similarity == Penalised(SimilarityOf(dist[d.text]), emotion, d.emotion)
             rest == SemanticFrom(results, i + 1, dist, emotion, cutoff)
         IN  IF d.timestamp < cutoff THEN rest
             ELSE IF similarity >= TopicalThreshold
                  THEN << Entry(d.text, d.emotion, d.tags, d.timestamp, TRUE,
                                similarity, "semantic") >> \o rest
                  ELSE rest

\* does the row match  (LOWER(text) LIKE %w1% OR LOWER(text) LIKE %w2% ...)
LikeAny(text, query_words) ==
    \E i \in 1..Len(query_words) : LowerLike(text, query_words[i])

\* matches / len(query_words), in SimScale units
Relevance(text, query_words) ==
    IF Len(query_words) = 0 THEN 0
    ELSE (Cardinality({ i \in 1..Len(query_words) :
                          WordInLower(text, query_words[i]) }) * SimScale)
         \div Len(query_words)

\* _fallback_memory_search(query_text, emotion, limit, days_back) at time t
FallbackMemorySearch(rows, query_text, emotion, limit, days_back, t) ==
    LET query_words == QueryWords(query_text)
        cutoff == t - Days(days_back)
        hits == { r \in rows :
                    /\ LikeAny(r.text, query_words)
                    /\ r.timestamp >= cutoff
                    /\ Given(emotion) => (r.emotion = emotion \/ r.mood = emotion) }
        found == Limit(OrderByTimestampDesc(hits), limit)
    IN  \* no query word: the WHERE clause reads "()" and SQLite refuses the
        \* statement; the handler logs it and returns []
        IF Len(query_words) = 0 THEN << >>
        ELSE [ i \in 1..Len(found) |->
                 Entry(found[i].text, found[i].emotion, found[i].tags, found[i].timestamp,
                       TRUE, Relevance(found[i].text, query_words), "keyword") ]

\* a find_similar_memories that answers a query that raised with no result
FindSimilarDropsFailedQuery(rows, results, dist, queryFails, query_text, emotion, limit, days_back, t) ==
    IF ~embedding_model \/ ~memory_collection
    THEN FallbackMemorySearch(rows, query_text, emotion, limit, days_back, t)
    ELSE IF queryFails
    THEN << >>
    ELSE Limit(SortBySimilarityDesc(
                 SemanticFrom(results, 1, dist, emotion, t - Days(days_back))), limit)

\* a find_similar_memories that gives up when the index is not there
FindSimilarNoFallback(rows, results, dist, queryFails, query_text, emotion, limit, days_back, t) ==
    IF ~embedding_model \/ ~memory_collection \/ queryFails
    THEN << >>
    ELSE Limit(SortBySimilarityDesc(
                 SemanticFrom(results, 1, dist, emotion, t - Days(days_back))), limit)

\* find_similar_memories(query_text, emotion, limit, days_back) at time t.
\* results: what collection.query returned; queryFails: encode or query raised
FindSimilarMemories(rows, results, dist, queryFails, query_text, emotion, limit, days_back, t) ==
    IF ~embedding_model \/ ~memory_collection
    THEN FallbackMemorySearch(rows, query_text, emotion, limit, days_back, t)
    ELSE IF queryFails
    THEN FallbackMemorySearch(rows, query_text, emotion, limit, days_back, t)
    ELSE Limit(SortBySimilarityDesc(
                 SemanticFrom(results, 1, dist, emotion, t - Days(days_back))), limit)

\* find_emotional_memories(emotion, limit, days_back) at time t
FindEmotionalMemories(rows, emotion, limit, days_back, t) ==
    LET hits == { r \in rows :
                    /\ (r.emotion = emotion \/ r.mood = emotion)
                    /\ r.timestamp >= t - Days(days_back) }
        found == Limit(OrderByTimestampDesc(hits), limit)
    IN  [ i \in 1..Len(found) |->
            Entry(found[i].text, found[i].emotion, found[i].tags, found[i].timestamp,
                  FALSE, 0, "emotional") ]

RECURSIVE UniqueFrom(_, _, _)
\* the seen_texts loop: an entry is kept when no earlier one has its text
UniqueFrom(all, i, seen_texts) ==
    IF i > Len(all) THEN << >>
    ELSE IF all[i].text \in seen_texts
         THEN UniqueFrom(all, i + 1, seen_texts)
         ELSE << all[i] >> \o UniqueFrom(all, i + 1, seen_texts \cup {all[i].text})

\* a merge that forgets the seen_texts test
UniqueMemoriesKeepsAll(all) == all

UniqueMemories(all) == UniqueFrom(all, 1, {})

\* what inject_context_memories passes to find_similar_memories as emotion:
\* nothing (the call names limit and days_back only)
TopicalEmotionArg(current_emotion) == NULL

\* the topical list of inject_context_memories
TopicalMemories(rows, results, dist, queryFails, current_text, current_emotion, max_memories, t) ==
    FindSimilarMemories(rows, results, dist, queryFails, current_text,
                        TopicalEmotionArg(current_emotion), max_memories, TopicalDays, t)

\* the emotional list of inject_context_memories
EmotionalMemories(rows, current_emotion, max_memories, t) ==
    IF Given(current_emotion)
    THEN FindEmotionalMemories(rows, current_emotion, max_memories \div 2, EmotionalDays, t)
    ELSE << >>

\* a merge that puts the emotional list before the topical one
RelevantMemoriesEmotionalFirst(topical_memories, emotional_memories, max_memories) ==
    Limit(SortBySimilarityDesc(UniqueMemories(emotional_memories \o topical_memories)),
          max_memories)

\* context["relevant_memories"] of inject_context_memories
RelevantMemories(topical_memories, emotional_memories, max_memories) ==
    Limit(SortBySimilarityDesc(UniqueMemories(topical_memories \o emotional_memories)),
          max_memories)

\* ---------------------------------------------------------------- ingestion
\* a process_text_input that goes on to the index write after the INSERT raised
ProcessTextStoreIndexesAnyway(text, mood, dbFails) ==
    /\ pc = "idle"
    /\ LET r == AddMemory(collection, text, mood, "", 0, now, FALSE, FALSE)
       IN  /\ collection' = r.coll
           /\ last' = [op |-> "process_text_input", text |-> text, stored |-> FALSE,
                       interaction_id |-> 0, error |-> TRUE, vector_ret |-> r.ret,
                       raised |-> "none"]
    /\ UNCHANGED << interactions, seq, written, pc, pending, deleted_interactions, backups,
                    protection_enabled, embedding_model, memory_collection, now, ticks,
                    memory_patterns, weekly_summaries, context_file, updaters >>

\* process_text_input, steps 1 to 4: the analyses, then db.add_interaction.
\* mood: emotion_analysis["bhoola_mood"]; dbFails: the INSERT raises.  The
\* memory context of step 3 is read only and is not kept.
ProcessTextStore(text, mood, dbFails) ==
    /\ pc = "idle"
    /\ IF dbFails
       THEN /\ last' = [op |-> "process_text_input", text |-> text, stored |-> FALSE,
                        interaction_id |-> 0, error |-> TRUE, vector_ret |-> FALSE,
                        raised |-> "none"]
            /\ UNCHANGED << interactions, seq, written, pc, pending >>
       ELSE /\ interactions' = interactions \cup
                   { InsertedRow(text, "manual", "", mood, NULL, 1, 0, now) }
            /\ written' = written \cup
                   { InsertedRow(text, "manual", "", mood, NULL, 1, 0, now) }
            /\ seq' = seq + 1
            /\ pc' = "vector_storage"
            /\ pending' = [interaction_id |-> seq + 1, text |-> text,
                           emotion |-> mood, tags |-> ""]
            /\ last' = NoCall
    /\ UNCHANGED << deleted_interactions, backups, protection_enabled, collection,
                    embedding_model, memory_collection, now, ticks,
                    memory_patterns, weekly_summaries, context_file, updaters >>

\* a step 5 that undoes the stored row when the index write does not succeed
ProcessTextVectorRollsBack(encodeFails, dupRaises) ==
    /\ pc = "vector_storage"
    /\ LET r == AddMemory(collection, pending.text, pending.emotion, pending.tags,
                          pending.interaction_id, now, encodeFails, dupRaises)
           ok == embedding_model /\ r.ret
       IN  /\ collection' = IF embedding_model THEN r.coll ELSE collection
           /\ interactions' = IF ok THEN interactions
                              ELSE { x \in interactions : x.id /= pending.interaction_id }
           /\ last' = [op |-> "process_text_input", text |-> pending.text, stored |-> ok,
                       interaction_id |-> pending.interaction_id, error |-> ~ok,
                       vector_ret |-> ok, raised |-> "none"]
    /\ pc' = "idle"
    /\ pending' = NoPending
    /\ UNCHANGED << seq, written, deleted_interactions, backups, protection_enabled,
                    embedding_model, memory_collection, now, ticks,
                    memory_patterns, weekly_summaries, context_file, updaters >>

\* process_text_input, step 5 and the final analysis: add_memory when
\* capabilities["memory_injection"] (the embedding model is loaded)
ProcessTextVector(encodeFails, dupRaises) ==
    /\ pc = "vector_storage"
    /\ LET r == AddMemory(collection, pending.text, pending.emotion, pending.tags,
                          pending.interaction_id, now, encodeFails, dupRaises)
       IN  /\ collection' = IF embedding_model THEN r.coll ELSE collection
           /\ last' = [op |-> "process_text_input", text |-> pending.text, stored |-> TRUE,
                       interaction_id |-> pending.interaction_id, error |-> FALSE,
                       vector_ret |-> embedding_model /\ r.ret, raised |-> "none"]
    /\ pc' = "idle"
    /\ pending' = NoPending
    /\ UNCHANGED << interactions, seq, written, deleted_interactions, backups, protection_enabled,
                    embedding_model, memory_collection, now, ticks,
                    memory_patterns, weekly_summaries, context_file, updaters >>

RECURSIVE SyncFrom(_, _, _, _, _)
\* the loop of sync_sql_to_vector_db over the rows read: [coll, synced_count]
SyncFrom(results, i, acc, failIds, dupRaises) ==
    IF i > Len(results) THEN acc
    ELSE LET row == results[i]
             r == AddMemory(acc.coll, row.text, row.emotion, row.tags, row.id, now,
                            row.id \in failIds, dupRaises)
         IN  IF SyncDocId(row.timestamp, row.id) \in DocIds(acc.coll)
             THEN SyncFrom(results, i + 1, acc, failIds, dupRaises)
             ELSE SyncFrom(results, i + 1,
                           [coll |-> r.coll,
                            synced_count |-> acc.synced_count + (IF r.ret THEN 1 ELSE 0)],
                           failIds, dupRaises)

\* a sync that takes every row it read for one the index already holds
SyncResultSkipsAll(days_back, failIds, dupRaises) ==
    [coll |-> collection, synced_count |-> 0]

\* sync_sql_to_vector_db(days_back) at the present time
SyncResult(days_back, failIds, dupRaises) ==
    IF ~embedding_model \/ ~memory_collection
    THEN [coll |-> collection, synced_count |-> 0]
    ELSE SyncFrom(OrderByTimestampDesc({ r \in interactions :
                                           r.timestamp >= now - Days(days_back) }),
                  1, [coll |-> collection, synced_count |-> 0], failIds, dupRaises)

SyncSqlToVectorDb(days_back, failIds, dupRaises) ==
    /\ pc = "idle"
    /\ LET r == SyncResult(days_back, failIds, dupRaises)
       IN  /\ Cardinality(r.coll) <= MaxDocs
           /\ collection' = r.coll
           /\ last' = [op |-> "sync_sql_to_vector_db", days_back |-> days_back,
                       synced_count |-> r.synced_count]
    /\ UNCHANGED << interactions, seq, written, deleted_interactions, backups, protection_enabled,
                    embedding_model, memory_collection, now, ticks, pc, pending,
                    memory_patterns, weekly_summaries, context_file, updaters >>

\* ---------------------------------------------------------- retrieval calls
\* the distances an embedding of the query may give the indexed texts, and
\* the result lists of the query; none of either when the index is not asked
DistFunctions(coll, asked) ==
    IF asked THEN [ { d.text : d \in coll } -> Distances ] ELSE { << >> }
ResultLists(coll, dist, k, asked) ==
    IF asked THEN QueryResults(coll, dist, k) ELSE { << >> }
IndexAsked(queryFails) == embedding_model /\ memory_collection /\ ~queryFails

\* inject_context_memories(current_text, current_emotion, max_memories)
InjectContextMemories(current_text, current_emotion, max_memories, queryFails) ==
    /\ pc = "idle"
    /\ \E dist \in DistFunctions(collection, IndexAsked(queryFails)) :
       \E results \in ResultLists(collection, dist, max_memories * 2, IndexAsked(queryFails)) :
         LET topical == TopicalMemories(interactions, results, dist, queryFails,
                                        current_text, current_emotion, max_memories, now)
             emotional == EmotionalMemories(interactions, current_emotion, max_memories, now)
         IN  last' = [op |-> "inject_context_memories",
                      current_text |-> current_text,
                      current_emotion |-> current_emotion,
                      max_memories |-> max_memories,
                      index_used |-> IndexAsked(queryFails),
                      topical_memories |-> topical,
                      emotional_memories |-> emotional,
                      relevant_memories |-> RelevantMemories(topical, emotional, max_memories)]
    /\ pc' = "returned"
    /\ UNCHANGED << interactions, seq, written, deleted_interactions, backups, protection_enabled,
                    collection, embedding_model, memory_collection, now, ticks, pending,
                    memory_patterns, weekly_summaries, context_file, updaters >>

\* find_similar_memories(query_text, emotion, limit) called by itself
FindSimilarCall(query_text, emotion, limit, queryFails) ==
    /\ pc = "idle"
    /\ \E dist \in DistFunctions(collection, IndexAsked(queryFails)) :
       \E results \in ResultLists(collection, dist, limit * 2, IndexAsked(queryFails)) :
         last' = [op |-> "find_similar_memories",
                  query_text |-> query_text, emotion |-> emotion, limit |-> limit,
                  index_used |-> IndexAsked(queryFails),
                  result |-> FindSimilarMemories(interactions, results, dist, queryFails,
                                                 query_text, emotion, limit, TopicalDays, now)]
    /\ pc' = "returned"
    /\ UNCHANGED << interactions, seq, written, deleted_interactions, backups, protection_enabled,
                    collection, embedding_model, memory_collection, now, ticks, pending,
                    memory_patterns, weekly_summaries, context_file, updaters >>

\* the caller has read the list a retrieval call returned
ReadResult ==
    /\ pc = "returned"
    /\ pc' = "idle"
    /\ last' = NoCall
    /\ UNCHANGED << interactions, seq, written, deleted_interactions, backups, protection_enabled,
                    collection, embedding_model, memory_collection, now, ticks, pending,
                    memory_patterns, weekly_summaries, context_file, updaters >>

\* ----------------------------------------------------------- prompt assembly
\* MemoryInjector defines neither get_humor_patterns nor get_recent_emotions:
\* the attribute lookup of generate_context_prompt raises AttributeError
InjectorHasPatternMethods == FALSE

\* retrieve_relevant_memories(query, emotion_context, 30): the lists the
\* similarity search may leave after the score and the time filter, best
\* first: any documents of the store, none twice
RetrievedMemories(coll) ==
    { << >> } \cup { << d >> : d \in coll }
              \cup { p \in { << d, e >> : d \in coll, e \in coll } : p[1] /= p[2] }

\* generate_context_prompt(query, emotion_context) of an engine whose
\* config.max_context_length is max_context_length.  retrieve_relevant_memories
\* reads the vector store and changes nothing; the lookup of the pattern
\* methods raises before any context section is built, and the handler
\* returns the query as it came.
GenerateContextPrompt(query, emotion_context, max_context_length) ==
    /\ pc = "idle"
    /\ ~InjectorHasPatternMethods
    /\ \E memories \in RetrievedMemories(collection) :
         last' = [op |-> "generate_context_prompt", query |-> query,
                  emotion_context |-> emotion_context,
                  max_context_length |-> max_context_length,
                  memories |-> memories,
                  raised_inside |-> "AttributeError",
                  prompt |-> query]
    /\ pc' = "returned"
    /\ UNCHANGED << interactions, seq, written, deleted_interactions, backups,
                    protection_enabled, collection, embedding_model, memory_collection,
                    now, ticks, pending,
                    memory_patterns, weekly_summaries, context_file, updaters >>

\* -------------------------------------------------------- delete protection
\* interaction_data[1][:100]
PreviewLen == 100
\* the intensity of a deletion, a restoration and a lockdown log row
DeletionLogIntensity == 8
RestorationLogIntensity == 7
LockdownLogIntensity == 10

\* INSERT INTO interactions (text, source, tags, emotion, intensity, timestamp):
\* mood is NULL, bit_worthy defaults to 0, created_at to CURRENT_TIMESTAMP
LogRow(id, text, source, tags, emotion, intensity) ==
    Row(id, text, source, tags, emotion, NULL, intensity, 0, now, now)

\* the file shutil.copy2 writes: f"{dir}/{prefix}_{now:%Y%m%d_%H%M%S}.db"
BackupPath(dir, prefix) == [dir |-> dir, prefix |-> prefix, t |-> now]

DeletionLogText(interaction_id, reason, text) ==
    "DELETION LOG: Deleted interaction " \o IntToStr(interaction_id) \o ". Reason: "
        \o reason \o ". Original: " \o Prefix(text, PreviewLen) \o "..."

RestorationLogText(interaction_id, deletion_reason) ==
    "RESTORATION LOG: Restored interaction " \o IntToStr(interaction_id)
        \o ". Originally deleted: " \o deletion_reason

LockdownLogText ==
    "EMERGENCY LOCKDOWN ACTIVATED: All deletion operations disabled. Full backup created."

\* a tombstone whose INSERT binds the reason where the text goes, and the
\* text where the reason goes
TombstoneColumnsSwapped(interaction_id, interaction_data, reason, backup_path) ==
    [id |-> interaction_id,
     original_text |-> reason,
     deletion_reason |-> interaction_data.text,
     deletion_timestamp |-> now,
     original_data |-> StrOfRow(interaction_data),
     backup_location |-> backup_path]

\* the row INSERT INTO deleted_interactions VALUES (?, ?, ?, ?, ?, ?) writes
Tombstone(interaction_id, interaction_data, reason, backup_path) ==
    [id |-> interaction_id,
     original_text |-> interaction_data.text,
     deletion_reason |-> reason,
     deletion_timestamp |-> now,
     original_data |-> StrOfRow(interaction_data),
     backup_location |-> backup_path]

\* SELECT * FROM interactions WHERE id = ? : fetchone()
Fetched(rows, interaction_id) == { r \in rows : r.id = interaction_id }

\* SELECT * FROM deleted_interactions WHERE id = ? : the rows, in rowid order
FetchedDeleted(interaction_id) ==
    SelectSeq(deleted_interactions, LAMBDA d : d.id = interaction_id)

\* a restore that binds the tags where the emotion goes, and the emotion
\* where the tags go
RestoredColumnsSwapped(original_data) ==
    << original_data[2], original_data[3], original_data[5], original_data[4],
       original_data[6], original_data[7], original_data[8], original_data[9] >>

\* original_data[1:9]: text, source, tags, emotion, mood, intensity,
\* bit_worthy, timestamp
RestoredColumns(original_data) == SubSeq(original_data, 2, 9)

\* db.add_interaction(text, source, tags, emotion, mood, intensity, bit_worthy)
AddInteraction(text, source, tags, emotion, mood, intensity, bit_worthy) ==
    /\ pc = "idle"
    /\ LET row == InsertedRow(text, source, tags, emotion, mood, intensity, bit_worthy, now)
       IN  /\ interactions' = interactions \cup {row}
           /\ written' = written \cup {row}
           /\ seq' = seq + 1
           /\ last' = [op |-> "add_interaction", interaction_id |-> row.id]
    /\ UNCHANGED << deleted_interactions, backups, protection_enabled, collection,
                    embedding_model, memory_collection, now, ticks, pc, pending,
                    memory_patterns, weekly_summaries, context_file, updaters >>

\* a delete that writes the log row and forgets the DELETE
LiveAfterDeleteKeepsRow(rows, log, interaction_data) == rows \cup {log}

\* the live table after the INSERT of the log row and DELETE ... WHERE id = ?
LiveAfterDelete(rows, log, interaction_data) == (rows \cup {log}) \ {interaction_data}

\* a delete that answers True although it found no row
SafeDeleteAlwaysTrue(interaction_id, reason, copyFails) ==
    /\ pc = "idle"
    /\ last' = [op |-> "safe_delete_interaction", interaction_id |-> interaction_id,
                reason |-> reason, ret |-> TRUE, raised |-> "none",
                backup_written |-> ~copyFails]
    /\ UNCHANGED << interactions, seq, written, deleted_interactions, backups,
                    protection_enabled, collection, embedding_model, memory_collection,
                    now, ticks, pc, pending,
                    memory_patterns, weekly_summaries, context_file, updaters >>

\* safe_delete_interaction(interaction_id, reason).  copyFails: shutil.copy2
\* raises.  Every exception of the body is caught and answered with False; a
\* disabled protection only logs a warning.
SafeDeleteInteraction(interaction_id, reason, copyFails) ==
    /\ pc = "idle"
    /\ LET backup_path == BackupPath("backups/pre_delete", "pre_delete")
           found == Fetched(interactions, interaction_id)
           ret == ~copyFails /\ found /= {}
       IN  /\ backups' = IF copyFails THEN backups ELSE backups \cup {backup_path}
           /\ IF ret
              THEN LET interaction_data == CHOOSE r \in found : TRUE
                       log == LogRow(seq + 1,
                                     DeletionLogText(interaction_id, reason,
                                                     interaction_data.text),
                                     "ai_delete_protection",
                                     "deletion_log,ai_safety,backup", "protective",
                                     DeletionLogIntensity)
                   IN  /\ interactions' = LiveAfterDelete(interactions, log, interaction_data)
                       /\ written' = written \cup {log}
                       /\ seq' = seq + 1
                       /\ deleted_interactions' =
                              Append(deleted_interactions,
                                     Tombstone(interaction_id, interaction_data, reason,
                                               backup_path))
              ELSE UNCHANGED << interactions, written, seq, deleted_interactions >>
           /\ last' = [op |-> "safe_delete_interaction", interaction_id |-> interaction_id,
                       reason |-> reason, ret |-> ret, raised |-> "none",
                       backup_written |-> ~copyFails]
    /\ UNCHANGED << protection_enabled, collection, embedding_model, memory_collection,
                    now, ticks, pc, pending,
                    memory_patterns, weekly_summaries, context_file, updaters >>

\* restore_deleted_interaction(interaction_id).  A table deleted_interactions
\* that no delete has created yet makes the SELECT raise, which the handler
\* answers with False like a tombstone that is not there.
RestoreDeletedInteraction(interaction_id) ==
    /\ pc = "idle"
    /\ LET found == FetchedDeleted(interaction_id)
           parsed == IF Len(found) = 0 THEN [ok |-> FALSE, val |-> << >>]
                     ELSE Eval(found[1].original_data)
           ret == Len(found) > 0 /\ parsed.ok /\ Len(parsed.val) >= 9
       IN  /\ IF ret
              THEN LET c == RestoredColumns(parsed.val)
                       row == Row(seq + 1, c[1], c[2], c[3], c[4], c[5], c[6], c[7], c[8], now)
                       log == LogRow(seq + 2,
                                     RestorationLogText(interaction_id,
                                                        found[1].deletion_reason),
                                     "ai_delete_protection",
                                     "restoration_log,ai_safety,recovery", "recovered",
                                     RestorationLogIntensity)
                   IN  /\ interactions' = interactions \cup {row, log}
                       /\ written' = written \cup {row, log}
                       /\ seq' = seq + 2
                       /\ deleted_interactions' =
                              SelectSeq(deleted_interactions,
                                        LAMBDA d : d.id /= interaction_id)
              ELSE UNCHANGED << interactions, written, seq, deleted_interactions >>
           /\ last' = [op |-> "restore_deleted_interaction",
                       interaction_id |-> interaction_id, ret |-> ret, raised |-> "none"]
    /\ UNCHANGED << backups, protection_enabled, collection, embedding_model,
                    memory_collection, now, ticks, pc, pending,
                    memory_patterns, weekly_summaries, context_file, updaters >>

\* emergency_lockdown().  copyFails: shutil.copy2 raises, outside any handler
EmergencyLockdown(copyFails) ==
    /\ pc = "idle"
    /\ IF copyFails
       THEN /\ last' = [op |-> "emergency_lockdown", ret |-> FALSE, raised |-> "OSError"]
            /\ UNCHANGED << interactions, written, seq, backups, protection_enabled >>
       ELSE LET log == LogRow(seq + 1, LockdownLogText, "ai_safety_lockdown",
                              "emergency,lockdown,ai_safety,protection", "protective",
                              LockdownLogIntensity)
            IN  /\ backups' = backups \cup { BackupPath("backups/protection",
                                                        "EMERGENCY_LOCKDOWN") }
                /\ protection_enabled' = FALSE
                /\ interactions' = interactions \cup {log}
                /\ written' = written \cup {log}
                /\ seq' = seq + 1
                /\ last' = [op |-> "emergency_lockdown", ret |-> TRUE, raised |-> "none"]
    /\ UNCHANGED << deleted_interactions, collection, embedding_model, memory_collection,
                    now, ticks, pc, pending,
                    memory_patterns, weekly_summaries, context_file, updaters >>

\* a wrapper that calls the function it wraps without the backup
SafeDeleteWrapperSkipsBackup(interaction_id, copyFails) ==
    /\ pc = "idle"
    /\ interactions' = interactions \ Fetched(interactions, interaction_id)
    /\ last' = [op |-> "safe_delete_wrapper", interaction_id |-> interaction_id,
                raised |-> "none", backup_written |-> FALSE]
    /\ UNCHANGED << seq, written, deleted_interactions, backups, protection_enabled,
                    collection, embedding_model, memory_collection, now, ticks, pc,
                    pending, memory_patterns, weekly_summaries, context_file, updaters >>

\* a call of a function that safe_delete_wrapper wraps, the function being
\* one that runs DELETE FROM interactions WHERE id = ?.  The wrapper first
\* calls prevent_bulk_delete, whose shutil.copy2 is under no try: when it
\* raises (copyFails) the exception leaves the wrapper and the function is
\* not called.
SafeDeleteWrapper(interaction_id, copyFails) ==
    /\ pc = "idle"
    /\ IF copyFails
       THEN /\ last' = [op |-> "safe_delete_wrapper", interaction_id |-> interaction_id,
                        raised |-> "OSError", backup_written |-> FALSE]
            /\ UNCHANGED << interactions, backups >>
       ELSE /\ backups' = backups \cup { BackupPath("backups/protection",
                                                    "emergency_bulk_protection") }
            /\ interactions' = interactions \ Fetched(interactions, interaction_id)
            /\ last' = [op |-> "safe_delete_wrapper", interaction_id |-> interaction_id,
                        raised |-> "none", backup_written |-> TRUE]
    /\ UNCHANGED << seq, written, deleted_interactions, protection_enabled,
                    collection, embedding_model, memory_collection, now, ticks, pc,
                    pending, memory_patterns, weekly_summaries, context_file, updaters >>

\* ------------------------------------------------- copilot context file
\* the age below which update_copilot_context means to skip the write
ThrottleHours == 6
HoursPerDay == 24

\* datetime.timedelta has days, seconds and microseconds and no attribute
\* hours: (datetime.now() - last_modified).hours raises AttributeError
TimedeltaHasHours == FALSE

\* whole hours between the modification time of the file and t
AgeHours(file, t) == ((t - file.mtime) * HoursPerDay) \div SecondsPerDay

\* generate_copilot_context(): the header carries datetime.now(), the recent
\* memory section one line per row of get_recent_interactions (7 days)
GenerateCopilotContext(rows, t) ==
    [updated |-> t,
     recent |-> { [timestamp |-> r.timestamp, text |-> r.text, emotion |-> r.emotion] :
                    r \in { x \in rows : x.timestamp >= t - Days(SyncDays) } }]

\* update_copilot_context(force_update).  writeFails: open() or the write
\* raises.  Every exception of the body, the AttributeError of the age test
\* included, goes to the except that logs it and returns False.
UpdateCopilotContext(force_update, writeFails) ==
    /\ pc = "idle"
    /\ IF ~force_update /\ context_file.exists
       THEN IF TimedeltaHasHours
            THEN IF AgeHours(context_file, now) < ThrottleHours
                 THEN /\ last' = [op |-> "update_copilot_context",
                                  force_update |-> force_update,
                                  raised_inside |-> "none", ret |-> FALSE]
                      /\ UNCHANGED context_file
                 ELSE /\ ~writeFails
                      /\ context_file' = [exists |-> TRUE, mtime |-> now,
                                          content |-> GenerateCopilotContext(interactions, now)]
                      /\ last' = [op |-> "update_copilot_context",
                                  force_update |-> force_update,
                                  raised_inside |-> "none", ret |-> TRUE]
            ELSE /\ last' = [op |-> "update_copilot_context",
                             force_update |-> force_update,
                             raised_inside |-> "AttributeError", ret |-> FALSE]
                 /\ UNCHANGED context_file
       ELSE IF writeFails
            THEN /\ last' = [op |-> "update_copilot_context",
                             force_update |-> force_update,
                             raised_inside |-> "OSError", ret |-> FALSE]
                 /\ UNCHANGED context_file
            ELSE /\ context_file' = [exists |-> TRUE, mtime |-> now,
                                     content |-> GenerateCopilotContext(interactions, now)]
                 /\ last' = [op |-> "update_copilot_context",
                             force_update |-> force_update,
                             raised_inside |-> "none", ret |-> TRUE]
    /\ UNCHANGED << interactions, seq, written, deleted_interactions, backups,
                    protection_enabled, collection, embedding_model, memory_collection,
                    now, ticks, pc, pending, memory_patterns, weekly_summaries, updaters >>

\* schedule_daily_update(): update_copilot_context(force_update=True), then
\* a line printed
ScheduleDailyUpdate(writeFails) == UpdateCopilotContext(TRUE, writeFails)

\* ------------------------------------------------------- pattern tracking
\* (pattern_text, pattern_type) of the calls; SQLite compares TEXT with =
\* byte by byte, so "lol" and "LOL" are two keys
PatternKeys == { << "lol", "humor" >>, << "LOL", "humor" >>, << "lol", "wordplay" >> }

\* SELECT id, frequency FROM memory_patterns WHERE pattern_text = ? AND
\* pattern_type = ?
PatternRows(table, pattern_text, pattern_type) ==
    { p \in table : p.pattern_text = pattern_text /\ p.pattern_type = pattern_type }

\* an update that never looks the pattern up and inserts a row on every call
UpdatePatternAlwaysInserts(pattern_text, pattern_type) ==
    /\ pc = "idle"
    /\ memory_patterns' = memory_patterns \cup
           { [id |-> Cardinality(memory_patterns) + 1, pattern_type |-> pattern_type,
              pattern_text |-> pattern_text, frequency |-> 1,
              first_seen |-> now, last_seen |-> now] }
    /\ last' = [op |-> "update_pattern_frequency", pattern_text |-> pattern_text,
                pattern_type |-> pattern_type]
    /\ UNCHANGED << interactions, seq, written, deleted_interactions, backups,
                    protection_enabled, collection, embedding_model, memory_collection,
                    now, ticks, pc, pending, weekly_summaries, context_file, updaters >>

\* db.update_pattern_frequency(pattern_text, pattern_type): fetchone() takes
\* the row of the smallest rowid; no row of the table is ever deleted, so
\* AUTOINCREMENT gives the number of rows plus one
UpdatePatternFrequency(pattern_text, pattern_type) ==
    /\ pc = "idle"
    /\ LET found == PatternRows(memory_patterns, pattern_text, pattern_type)
       IN  IF found /= {}
           THEN LET result == CHOOSE p \in found : \A q \in found : p.id <= q.id
                IN  memory_patterns' = (memory_patterns \ {result}) \cup
                        { [result EXCEPT !.frequency = result.frequency + 1,
                                         !.last_seen = now] }
           ELSE memory_patterns' = memory_patterns \cup
                    { [id |-> Cardinality(memory_patterns) + 1,
                       pattern_type |-> pattern_type, pattern_text |-> pattern_text,
                       frequency |-> 1, first_seen |-> now, last_seen |-> now] }
    /\ last' = [op |-> "update_pattern_frequency", pattern_text |-> pattern_text,
                pattern_type |-> pattern_type]
    /\ UNCHANGED << interactions, seq, written, deleted_interactions, backups,
                    protection_enabled, collection, embedding_model, memory_collection,
                    now, ticks, pc, pending, weekly_summaries, context_file, updaters >>

\* ---- update_pattern_frequency, statement by statement
\* the threads that call update_pattern_frequency, each on a connection of
Callers == { "first", "second" }
\* its own: idle between two calls, with done[key] calls returned, or
\* selected, holding what fetchone() gave (<< >> for None)
\* the SELECT and fetchone() of update_pattern_frequency on the connection
\* of caller c.  The statement runs outside any transaction and is finished
\* when fetchone() returns, so the connection holds no lock afterwards.
PatternSelect(c, pattern_text, pattern_type) ==
    /\ pc = "idle"
    /\ updaters[c].pc = "idle"
    /\ LET found == PatternRows(memory_patterns, pattern_text, pattern_type)
           result == IF found = {} THEN << >>
                     ELSE LET p == CHOOSE p \in found : \A q \in found : p.id <= q.id
                          IN  << p.id, p.frequency >>
       IN  updaters' = [updaters EXCEPT ![c] =
                           [pc |-> "selected", done |-> updaters[c].done,
                            pattern_text |-> pattern_text, pattern_type |-> pattern_type,
                            result |-> result]]
    /\ last' = NoCall
    /\ UNCHANGED << interactions, seq, written, deleted_interactions, backups,
                    protection_enabled, collection, embedding_model, memory_collection,
                    now, ticks, pc, pending, memory_patterns, weekly_summaries, context_file >>

\* the UPDATE or INSERT, conn.commit() and conn.close() of caller c: SQLite
\* lets one connection write at a time, so the statement and its commit are
\* one step.  The UPDATE sets the frequency the SELECT of this call read,
\* plus one, on the row of the id it read.
PatternWrite(c) ==
    /\ pc = "idle"
    /\ updaters[c].pc = "selected"
    /\ LET u == updaters[c]
       IN  /\ IF u.result /= << >>
              THEN memory_patterns' =
                       { IF p.id = u.result[1]
                         THEN [p EXCEPT !.frequency = u.result[2] + 1,
                                        !.last_seen = now]
                         ELSE p : p \in memory_patterns }
              ELSE memory_patterns' = memory_patterns \cup
                       { [id |-> Cardinality(memory_patterns) + 1,
                          pattern_type |-> u.pattern_type, pattern_text |-> u.pattern_text,
                          frequency |-> 1, first_seen |-> now, last_seen |-> now] }
           /\ updaters' = [updaters EXCEPT ![c] =
                  [pc |-> "idle",
                   done |-> [u.done EXCEPT ![<< u.pattern_text, u.pattern_type >>] = @ + 1]]]
           /\ last' = [op |-> "update_pattern_frequency", pattern_text |-> u.pattern_text,
                       pattern_type |-> u.pattern_type]
    /\ UNCHANGED << interactions, seq, written, deleted_interactions, backups,
                    protection_enabled, collection, embedding_model, memory_collection,
                    now, ticks, pc, pending, weekly_summaries, context_file >>


\* --------------------------------------------------------- weekly summary
\* datetime.weekday() counts the 7 days of a week from Monday = 0; day 0 of
\* the model clock is a Monday
DaysPerWeek == 7
\* timedelta(days=6, hours=23, minutes=59, seconds=59)
WeekEndDays == 6

\* the datetime of a second of the model clock
DateTimeOf(t) == [day |-> t \div SecondsPerDay, second |-> t % SecondsPerDay, microsecond |-> 0]

\* a <= b on datetimes, which is also the order of their isoformat() strings
DateLeq(a, b) ==
    \/ a.day < b.day
    \/ a.day = b.day /\ a.second < b.second
    \/ a.day = b.day /\ a.second = b.second /\ a.microsecond <= b.microsecond

\* get_week_boundaries(target_date)
GetWeekBoundaries(target_date) ==
    LET days_since_monday == target_date.day % DaysPerWeek
        week_start == [day |-> target_date.day - days_since_monday,
                       second |-> 0, microsecond |-> 0]
        week_end == [day |-> week_start.day + WeekEndDays,
                     second |-> SecondsPerDay - 1, microsecond |-> 0]
    IN  [week_start |-> week_start, week_end |-> week_end]

\* SELECT * FROM interactions WHERE timestamp BETWEEN ? AND ?
GetWeeklyInteractions(week_start, week_end) ==
    { r \in interactions : /\ DateLeq(week_start, DateTimeOf(r.timestamp))
                           /\ DateLeq(DateTimeOf(r.timestamp), week_end) }

\* the columns CREATE TABLE weekly_summaries gives the table
WeeklySummariesColumns ==
    { "id", "week_start", "week_end", "funny_patterns", "mood_trends", "memory_loops",
      "bit_collection", "insights", "created_at" }
\* the columns INSERT OR REPLACE INTO weekly_summaries names
SavedColumns ==
    { "week_start", "week_end", "funny_patterns", "mood_trends", "memory_loops",
      "summary_text" }

\* generate_weekly_summary(target_date).  A week without interactions returns
\* before the save.  _save_weekly_summary catches every exception of its
\* INSERT, and an INSERT that names a column the table does not have raises;
\* the table has no UNIQUE column but the id, so an INSERT OR REPLACE that
\* names no id adds a row.
GenerateWeeklySummary(target_date) ==
    /\ pc = "idle"
    /\ LET b == GetWeekBoundaries(target_date)
           rows == GetWeeklyInteractions(b.week_start, b.week_end)
           saved == rows /= {} /\ SavedColumns \subseteq WeeklySummariesColumns
       IN  /\ weekly_summaries' =
                  IF saved
                  THEN Append(weekly_summaries,
                              [id |-> Len(weekly_summaries) + 1,
                               week_start |-> b.week_start, week_end |-> b.week_end,
                               summary_text |-> { r.text : r \in rows },
                               created_at |-> now])
                  ELSE weekly_summaries
           /\ last' = [op |-> "generate_weekly_summary", week_start |-> b.week_start,
                       week_end |-> b.week_end, total_interactions |-> Cardinality(rows),
                       saved |-> saved]
    /\ UNCHANGED << interactions, seq, written, deleted_interactions, backups,
                    protection_enabled, collection, embedding_model, memory_collection,
                    now, ticks, pc, pending, memory_patterns, context_file, updaters >>

\* a call of get_week_boundaries(target_date) and what it returned
GetWeekBoundariesCall(target_date) ==
    /\ pc = "idle"
    /\ last' = [op |-> "get_week_boundaries", target_date |-> target_date,
                week_start |-> GetWeekBoundaries(target_date).week_start,
                week_end |-> GetWeekBoundaries(target_date).week_end]
    /\ UNCHANGED << interactions, seq, written, deleted_interactions, backups,
                    protection_enabled, collection, embedding_model, memory_collection,
                    now, ticks, pc, pending, memory_patterns, weekly_summaries, context_file, updaters >>

\* ------------------------------------------------------------- environment
\* the clock advances
Tick(step) ==
    /\ pc = "idle"
    /\ ticks < MaxTicks
    /\ now' = now + step
    /\ ticks' = ticks + 1
    /\ last' = NoCall
    /\ UNCHANGED << interactions, seq, written, deleted_interactions, backups, protection_enabled,
                    collection, embedding_model, memory_collection, pc, pending,
                    memory_patterns, weekly_summaries, context_file, updaters >>

\* the process is started again: MemoryInjector.__init__ loads the embedding
\* model and opens the collection, or fails to; both stores persist
Restart(model, coll) ==
    /\ pc = "idle"
    /\ embedding_model' = model
    /\ memory_collection' = coll
    /\ last' = NoCall
    /\ UNCHANGED << interactions, seq, written, deleted_interactions, backups, protection_enabled,
                    collection, now, ticks, pc, pending,
                    memory_patterns, weekly_summaries, context_file, updaters >>

\* ------------------------------------------------ the memory specification
Init ==
    /\ interactions = {}
    /\ seq = 0
    /\ written = {}
    /\ deleted_interactions = << >>
    /\ backups = {}
    /\ protection_enabled = TRUE
    /\ memory_patterns = {}
    /\ weekly_summaries = << >>
    /\ collection = {}
    /\ embedding_model \in BOOLEAN
    /\ memory_collection \in BOOLEAN
    /\ now = 0
    /\ ticks = 0
    /\ pc = "idle"
    /\ pending = NoPending
    /\ context_file = [exists |-> FALSE]
    /\ updaters = [c \in Callers |-> [pc |-> "idle", done |-> [key \in PatternKeys |-> 0]]]
    /\ last = NoCall

\* ---- ingestion and sync: process_text_input, sync, restarts, the clock
\* the stores have room for one more interaction
Room == Cardinality(interactions) < MaxRows /\ Cardinality(collection) < MaxDocs

IngestStore == \E text \in IngestTexts, mood \in Moods, dbFails \in BOOLEAN :
                Room /\ ProcessTextStore(text, mood, dbFails)
IngestVector == \E encodeFails \in BOOLEAN, dupRaises \in BOOLEAN :
                ProcessTextVector(encodeFails, dupRaises)
IngestSync == \E days_back \in { SyncDays, TopicalDays }, dupRaises \in BOOLEAN :
              \E failIds \in SUBSET { r.id : r \in interactions } :
                SyncSqlToVectorDb(days_back, failIds, dupRaises)
IngestTick == \E step \in TickSteps : Tick(step)
IngestRestart == \E model \in BOOLEAN, coll \in BOOLEAN : Restart(model, coll)

NextIngest ==
    \/ IngestStore
    \/ IngestVector
    \/ IngestSync
    \/ IngestTick
    \/ IngestRestart

SpecIngest == Init /\ [][NextIngest]_vars

\* ---- retrieval over stores that ingestion has filled
RetrieveStore == \E text \in TextPool, mood \in Moods :
                Room /\ ProcessTextStore(text, mood, FALSE)
RetrieveVector == ProcessTextVector(FALSE, FALSE)
RetrieveTick == \E step \in TickSteps \ {1} : Tick(step)
RetrieveInject == \E q \in Queries, e \in QueryEmotions, m \in Limits, queryFails \in BOOLEAN :
                InjectContextMemories(q, e, m, queryFails)
RetrieveFindSimilar == \E q \in Queries, e \in QueryEmotions \ {NULL}, m \in Limits :
                       \E queryFails \in BOOLEAN :
                FindSimilarCall(q, e, m, queryFails)

NextRetrieve ==
    \/ RetrieveStore
    \/ RetrieveVector
    \/ RetrieveTick
    \/ RetrieveInject
    \/ RetrieveFindSimilar
    \/ ReadResult

SpecRetrieve == Init /\ [][NextRetrieve]_vars

\* ---- the debugging scenario: the index is available, the three records
\* are ingested, and "debugging" is retrieved with emotion calm for 2 memories
InitScenario ==
    /\ Init
    /\ embedding_model
    /\ memory_collection

ScenarioStore == \E rec \in ScenarioRecords :
                /\ \A r \in interactions : r.text /= rec.text
                /\ ProcessTextStore(rec.text, rec.mood, FALSE)
ScenarioVector == ProcessTextVector(FALSE, FALSE)
ScenarioRetrieve == InjectContextMemories(ScenarioQuery, "calm", 2, FALSE)
\* calls whose query of the index raises
ScenarioRetrieveDegraded == \E q \in ScenarioFallbackQueries, m \in 1..2 :
                InjectContextMemories(q, "calm", m, TRUE)

NextScenario ==
    \/ ScenarioStore
    \/ ScenarioVector
    \/ ScenarioRetrieve
    \/ ScenarioRetrieveDegraded
    \/ ReadResult

SpecScenario == InitScenario /\ [][NextScenario]_vars

\* ---- delete protection over a table that appends have filled
\* the live table has ids left for n more rows
IdsLeft(n) == seq + n <= MaxIds

DeleteAppend == \E rec \in DeleteRecords :
                /\ IdsLeft(1)
                /\ AddInteraction(rec.text, "manual", rec.tags, rec.emotion, NULL, 1, 0)
DeleteSoftDelete == \E interaction_id \in DeleteIds, copyFails \in BOOLEAN :
                /\ IdsLeft(1)
                /\ SafeDeleteInteraction(interaction_id, DefaultReason, copyFails)
DeleteRestore == \E interaction_id \in DeleteIds :
                /\ IdsLeft(2)
                /\ RestoreDeletedInteraction(interaction_id)
DeleteLockdown == \E copyFails \in BOOLEAN :
                /\ IdsLeft(1)
                /\ protection_enabled
                /\ EmergencyLockdown(copyFails)
NextDelete ==
    \/ DeleteAppend
    \/ DeleteSoftDelete
    \/ DeleteRestore
    \/ DeleteLockdown

SpecDelete == Init /\ [][NextDelete]_vars

\* ---- deletes behind a backup: safe_delete_interaction and a delete
\* function under safe_delete_wrapper, over a table that appends have filled
NextWrapper ==
    \/ DeleteAppend
    \/ DeleteSoftDelete
    \/ \E interaction_id \in DeleteIds, copyFails \in BOOLEAN :
          SafeDeleteWrapper(interaction_id, copyFails)

SpecWrapper == Init /\ [][NextWrapper]_vars

\* ---- prompt assembly over stores that ingestion has filled
PromptStore == \E text \in TextPool, mood \in Moods :
                Room /\ ProcessTextStore(text, mood, FALSE)
PromptVector == ProcessTextVector(FALSE, FALSE)
PromptGenerate == \E q \in Queries, e \in QueryEmotions, n \in ContextBudgets :
                GenerateContextPrompt(q, e, n)

NextPrompt ==
    \/ PromptStore
    \/ PromptVector
    \/ PromptGenerate
    \/ ReadResult

SpecPrompt == Init /\ [][NextPrompt]_vars

\* ---- pattern tracking: update_pattern_frequency and the clock
PatternUpdate == \E key \in PatternKeys :
                /\ \A p \in memory_patterns : p.frequency < MaxFrequency
                /\ UpdatePatternFrequency(key[1], key[2])

NextPattern ==
    \/ PatternUpdate
    \/ Tick(1)

SpecPattern == Init /\ [][NextPattern]_vars

\* ---- the record store and the weekly summary: add_interaction,
\* generate_weekly_summary, get_week_boundaries, the clock
\* text and intensity of the appends
AppendInputs ==
    { [text |-> "tea", intensity |-> 5], [text |-> "", intensity |-> 1],
      [text |-> "tea", intensity |-> 0], [text |-> "nap", intensity |-> 11] }
\* a Monday, a Thursday, a Sunday and the Monday after, at every second and
\* microsecond of the day
TargetDates ==
    { [day |-> d, second |-> sec, microsecond |-> us] :
        d \in { 0, 3, 6, 7 }, sec \in 0..(SecondsPerDay - 1), us \in 0..(MicrosPerSecond - 1) }

SummaryAppend == \E rec \in AppendInputs :
                /\ Cardinality(interactions) < MaxRows
                /\ AddInteraction(rec.text, "manual", NULL, NULL, NULL, rec.intensity, 0)
SummaryGenerate == \E target_date \in { DateTimeOf(now), DateTimeOf(0) } :
                GenerateWeeklySummary(target_date)
SummaryBoundaries == \E target_date \in TargetDates : GetWeekBoundariesCall(target_date)
SummaryTick == \E step \in { 1, Days(DaysPerWeek) } : Tick(step)

NextSummary ==
    \/ SummaryAppend
    \/ SummaryGenerate
    \/ SummaryBoundaries
    \/ SummaryTick

SpecSummary == Init /\ [][NextSummary]_vars

\* ---- the context file: update_copilot_context, schedule_daily_update,
\* appends to the table the context is drawn from, the clock
NextContext ==
    \/ DeleteAppend
    \/ \E force_update \in BOOLEAN, writeFails \in BOOLEAN :
          UpdateCopilotContext(force_update, writeFails)
    \/ \E writeFails \in BOOLEAN : ScheduleDailyUpdate(writeFails)
    \/ \E step \in { 1, Days(1) } : Tick(step)

SpecContext == Init /\ [][NextContext]_vars

\* ---- forgetting: ingestion into both stores, soft delete and restore,
\* retrieval over what is left
NextForget ==
    \/ RetrieveStore
    \/ RetrieveVector
    \/ DeleteSoftDelete
    \/ DeleteRestore
    \/ \E e \in QueryEmotions, queryFails \in BOOLEAN :
          InjectContextMemories("bug", e, MaxLimit, queryFails)
    \/ \E queryFails \in BOOLEAN : FindSimilarCall("bug", "calm", MaxLimit, queryFails)
    \/ ReadResult

SpecForget == Init /\ [][NextForget]_vars

\* ---- two threads in update_pattern_frequency, and the clock
\* a call begins while fewer than MaxFrequency calls have begun (returned, or
\* between their two statements)
NextConcurrent ==
    \/ \E c \in Callers, key \in PatternKeys :
          /\ Cardinality({ t \in Callers \X PatternKeys \X (1..MaxFrequency) :
                              t[3] <= updaters[t[1]].done[t[2]] })
                + Cardinality({ d \in Callers : updaters[d].pc = "selected" })
                    < MaxFrequency
          /\ PatternSelect(c, key[1], key[2])
    \/ \E c \in Callers : PatternWrite(c)
    \/ Tick(1)

SpecConcurrent == Init /\ [][NextConcurrent]_vars

\* ------------------------------------------------------------------ claims
Texts(list) == { list[i].text : i \in 1..Len(list) }
IsInject == last.op = "inject_context_memories"
IsFindSimilar == last.op = "find_similar_memories"
IndexUnavailable == ~embedding_model \/ ~memory_collection

\* C1: the merged result of inject_context_memories holds at most one entry
\* per text, and a text that both the topical and the emotional path returned
\* is in it exactly once.
C1_Deduplication ==
    IsInject =>
        LET m == last.relevant_memories
        IN  /\ \A i, j \in 1..Len(m) : i /= j => m[i].text /= m[j].text
            /\ \A text \in Texts(last.topical_memories) \cap Texts(last.emotional_memories) :
                 Cardinality({ i \in 1..Len(m) : m[i].text = text }) = 1

\* C1 witness: both paths returned the same text and the result holds it once
C1_Witness ==
    /\ IsInject
    /\ \E text \in Texts(last.topical_memories) \cap Texts(last.emotional_memories) :
         Cardinality({ i \in 1..Len(last.relevant_memories) :
                         last.relevant_memories[i].text = text }) = 1

\* a row the keyword query of the fallback selects, inside days_back
KeywordRow(r, query_text, days_back) ==
    /\ LikeAny(r.text, QueryWords(query_text))
    /\ r.timestamp >= now - Days(days_back)
\* a row the emotion query selects, inside days_back
EmotionRow(r, emotion, days_back) ==
    /\ Given(emotion)
    /\ (r.emotion = emotion \/ r.mood = emotion)
    /\ r.timestamp >= now - Days(days_back)

FromFallbackOnly(m) ==
    \A i \in 1..Len(m) : m[i].relevance_type \in { "keyword", "emotional" }

\* C3 as claimed: with the index unavailable and a stored record inside the
\* lookback window that matches by keyword or by the current emotion, the
\* result is non-empty and holds keyword and emotion entries only.
C3_FallbackAsClaimed ==
    (/\ IsInject
     /\ IndexUnavailable
     /\ \E r \in interactions :
           \/ KeywordRow(r, last.current_text, TopicalDays)
           \/ EmotionRow(r, last.current_emotion, TopicalDays))
    => /\ Len(last.relevant_memories) > 0
       /\ FromFallbackOnly(last.relevant_memories)

\* C3 amended: with the index unavailable the result holds keyword and
\* emotion entries only, and it is non-empty when a stored record matches a
\* query word inside 30 days, or matches the current emotion inside 14 days
\* while max_memories is at least 2.
C3_Fallback ==
    (IsInject /\ IndexUnavailable)
    => /\ FromFallbackOnly(last.relevant_memories)
       /\ (\E r \in interactions :
              \/ KeywordRow(r, last.current_text, TopicalDays)
              \/ (EmotionRow(r, last.current_emotion, EmotionalDays)
                  /\ last.max_memories >= 2))
          => Len(last.relevant_memories) > 0

\* C3 witness: the index is unavailable, no row matches by keyword, one
\* matches by emotion, and the result is what the emotion search found
C3_Witness ==
    /\ IsInject
    /\ IndexUnavailable
    /\ \A r \in interactions : ~KeywordRow(r, last.current_text, TopicalDays)
    /\ \E r \in interactions : EmotionRow(r, last.current_emotion, EmotionalDays)
    /\ Len(last.relevant_memories) > 0

\* C4: the similarity attached to a hit of the embedding path lies in [0, 1].
C4_SimilarityClamped ==
    (IsFindSimilar \/ IsInject) =>
        LET m == IF IsInject THEN last.relevant_memories ELSE last.result
        IN  \A i \in 1..Len(m) :
              m[i].relevance_type = "semantic"
                => (m[i].similarity >= 0 /\ m[i].similarity <= SimScale)

ScenarioIngested ==
    /\ { r.text : r \in interactions } = { rec.text : rec \in ScenarioRecords }
    /\ { d.text : d \in collection } = { rec.text : rec \in ScenarioRecords }

\* the topical similarity the call computed for a text
TopicalSimilarity(text) ==
    LET m == last.topical_memories
    IN  m[CHOOSE i \in 1..Len(m) : m[i].text = text].similarity

\* the similarity of the third record after the 0.7 penalty of an emotion
\* that is not the current one
ThirdPenalised ==
    (TopicalSimilarity(ScenarioThird.text) * PenaltyNum) \div PenaltyDen

\* C9: in the debugging scenario, with the first and the third record both
\* returned as topical matches, and the first's similarity above the third's
\* penalised one (which still passes the threshold), the result is the first
\* record and then the third.
C9_ScenarioRanking ==
    (/\ IsInject
     /\ ScenarioIngested
     /\ last.index_used
     /\ { ScenarioFirst.text, ScenarioThird.text } \subseteq Texts(last.topical_memories)
     /\ ThirdPenalised >= TopicalThreshold
     /\ TopicalSimilarity(ScenarioFirst.text) > ThirdPenalised)
    => /\ Len(last.relevant_memories) = 2
       /\ last.relevant_memories[1].text = ScenarioFirst.text
       /\ last.relevant_memories[2].text = ScenarioThird.text

IsProcessText == last.op = "process_text_input"

\* C5: the embedding index holds at most one vector per memory id.
C5_OneVectorPerMemory ==
    \A d1, d2 \in collection : d1.interaction_id = d2.interaction_id => d1 = d2

\* C10: process_text_input stores the row before it attempts the index write
\* (while the index write is pending the row is in the table and no document
\* of the interaction is in the collection), every document of the collection
\* belongs to a stored row, and a call that wrote its row reports the record
\* as stored, whatever add_memory answered, with the id of a row that is in
\* the table.
C10_StoreFirstNoRollback ==
    /\ pc = "vector_storage"
         => /\ \E r \in interactions : r.id = pending.interaction_id /\ r.text = pending.text
            /\ \A d \in collection : d.interaction_id /= pending.interaction_id
    /\ \A d \in collection : \E r \in interactions : r.id = d.interaction_id
    /\ (IsProcessText /\ last.interaction_id > 0)
         => /\ last.stored
            /\ ~last.error
            /\ \E r \in interactions : r.id = last.interaction_id /\ r.text = last.text

\* C10 witness: the call returned, the index write did not succeed, the index
\* holds nothing for the interaction, and the row is in the table
C10_Witness ==
    /\ IsProcessText
    /\ last.stored
    /\ ~last.vector_ret
    /\ \A d \in collection : d.interaction_id /= last.interaction_id
    /\ \E r \in interactions : r.id = last.interaction_id

IsSafeDelete == last.op = "safe_delete_interaction"
IsRestore == last.op = "restore_deleted_interaction"
\* the step is a call of safe_delete_interaction(i)
SafeDeleteStep(i) ==
    /\ last'.op = "safe_delete_interaction"
    /\ last'.interaction_id = i
    /\ \E copyFails \in BOOLEAN : SafeDeleteInteraction(i, DefaultReason, copyFails)
\* the step is a call of restore_deleted_interaction(i)
RestoreStep(i) ==
    /\ last'.op = "restore_deleted_interaction"
    /\ last'.interaction_id = i
    /\ RestoreDeletedInteraction(i)
\* the row that was written with id i
Original(i) == CHOOSE r \in written : r.id = i
NoTombstoneAfter(i) ==
    \A k \in 1..Len(deleted_interactions') : deleted_interactions'[k].id /= i

\* C6: a soft delete that succeeds takes the row out of the live table and
\* leaves its tombstone; a restore of an id that has a tombstone then succeeds,
\* adds under a new id a live row with the text, the emotion and the tags the
\* deleted row was written with, and leaves no tombstone for the id.
C6_RoundTrip ==
    [][\A i \in DeleteIds :
         /\ (SafeDeleteStep(i) /\ last'.ret)
              => /\ \E r \in interactions : r.id = i
                 /\ \A r \in interactions' : r.id /= i
                 /\ ~NoTombstoneAfter(i)
         /\ (RestoreStep(i) /\ Len(FetchedDeleted(i)) > 0)
              => /\ last'.ret
                 /\ \E r \in interactions' :
                      /\ \A x \in written : x.id /= r.id
                      /\ r.text = Original(i).text
                      /\ r.emotion = Original(i).emotion
                      /\ r.tags = Original(i).tags
                 /\ NoTombstoneAfter(i)]_vars

\* C6 witness: a row whose text holds a backslash and both quotes was deleted
\* and restored: it is live again under a later id, and no tombstone is left
C6_Witness ==
    /\ IsRestore
    /\ last.ret
    /\ deleted_interactions = << >>
    /\ \E o \in written, r \in interactions :
         /\ o.id = last.interaction_id
         /\ o \notin interactions
         /\ StrContains(o.text, Backslash)
         /\ r.id > o.id
         /\ r.text = o.text /\ r.emotion = o.emotion /\ r.tags = o.tags

\* a call of safe_delete_interaction on an id no row ever had, or of
\* restore_deleted_interaction on an id that has no tombstone
UnknownIdStep(i) ==
    \/ SafeDeleteStep(i) /\ \A r \in written : r.id /= i
    \/ RestoreStep(i) /\ Len(FetchedDeleted(i)) = 0
TablesUnchanged ==
    /\ interactions' = interactions
    /\ deleted_interactions' = deleted_interactions

\* C7 as claimed: a soft delete of an id that never existed, and a restore of
\* an id without a tombstone, fail with NotFoundError and change neither table.
C7_NotFoundError ==
    [][\A i \in DeleteIds :
         UnknownIdStep(i) => (last'.raised = "NotFoundError" /\ TablesUnchanged)]_vars

\* C7 amended: a soft delete of an id that never existed, and a restore of an
\* id without a tombstone, each return False to the caller, raise nothing, and
\* change neither the live table nor the tombstone table.
C7_UnknownIdReturnsFalse ==
    [][\A i \in DeleteIds :
         UnknownIdStep(i) => (~last'.ret /\ last'.raised = "none" /\ TablesUnchanged)]_vars

\* C7 witness: with rows in both tables, a soft delete of the id 9999 has
\* returned False
C7_Witness ==
    /\ IsSafeDelete
    /\ last.interaction_id = UnknownId
    /\ ~last.ret
    /\ last.backup_written
    /\ interactions /= {}
    /\ deleted_interactions /= << >>

\* C8: a soft delete of a live id whose backup copy is written returns True;
\* a soft delete of the same id right after one that returned True returns
\* False, raises nothing, and changes neither the live table nor the
\* tombstone table.
C8_RepeatedSoftDelete ==
    [][\A i \in DeleteIds :
         /\ (SafeDeleteStep(i) /\ last'.backup_written /\ \E r \in interactions : r.id = i)
              => last'.ret
         /\ (IsSafeDelete /\ last.ret /\ last.interaction_id = i /\ SafeDeleteStep(i))
              => (~last'.ret /\ last'.raised = "none" /\ TablesUnchanged)]_vars

\* C8 witness: a soft delete, its backup written, has returned False for an
\* id whose tombstone an earlier soft delete left
C8_Witness ==
    /\ IsSafeDelete
    /\ ~last.ret
    /\ last.backup_written
    /\ \E k \in 1..Len(deleted_interactions) :
         deleted_interactions[k].id = last.interaction_id

IsPrompt == last.op = "generate_context_prompt"

\* C2: the text generate_context_prompt returns for the budget
\* max_context_length is never longer than max_context_length characters.
C2_BoundedContext ==
    IsPrompt => Len(last.prompt) <= last.max_context_length

\* C11 as claimed: when the INSERT of process_text_input raises, the failure is
\* raised to the caller, and the call writes nothing to the collection.
C11_StoreFailureRaised ==
    [][(last'.op = "process_text_input" /\ last'.error)
         => (last'.raised /= "none" /\ collection' = collection)]_vars

\* C11 amended: when the INSERT of process_text_input raises, the call raises
\* nothing: it returns a result that carries the error, reports no stored
\* record and no id, and has written neither a row nor a document.
C11_StoreFailureReported ==
    [][(last'.op = "process_text_input" /\ last'.error)
         => /\ last'.raised = "none"
            /\ ~last'.stored
            /\ last'.interaction_id = 0
            /\ collection' = collection
            /\ interactions' = interactions
            /\ seq' = seq
            /\ pc' = "idle"]_vars

\* C11 witness: with the index available, the INSERT raised, the call returned
\* the error, and the collection holds no document of the text
C11_Witness ==
    /\ IsProcessText
    /\ last.error
    /\ embedding_model
    /\ memory_collection
    /\ \A d \in collection : d.text /= last.text

IsSync == last.op = "sync_sql_to_vector_db"
IndexedIn(coll, r) == \E d \in coll : d.interaction_id = r.id

\* C12: a run of sync_sql_to_vector_db with the index available, none of whose
\* add_memory calls fails, leaves a document for every live row inside its
\* window, the rows that ingestion stored without a document included.
C12_SyncIndexesWindow ==
    [][\A days_back \in { SyncDays, TopicalDays } :
         (/\ last'.op = "sync_sql_to_vector_db"
          /\ last'.days_back = days_back
          /\ embedding_model /\ memory_collection
          /\ \E dupRaises \in BOOLEAN : SyncSqlToVectorDb(days_back, {}, dupRaises))
         => \A r \in interactions :
              r.timestamp >= now - Days(days_back) => IndexedIn(collection', r)]_vars

\* C12 witness: a sync has returned, and a row that was stored without a
\* document has the one document the sync gave it at a later time
C12_Witness ==
    /\ IsSync
    /\ last.synced_count >= 1
    /\ \E r \in interactions :
         /\ Cardinality({ d \in collection : d.interaction_id = r.id }) = 1
         /\ \A d \in collection : d.interaction_id = r.id => d.timestamp > r.timestamp

\* the tombstones of a table that stand for the row w: its id, its text, the
\* reason of the delete and the path of a backup that was written
TombstonesOf(table, files, w) ==
    { k \in 1..Len(table) :
        /\ table[k].id = w.id
        /\ table[k].original_text = w.text
        /\ table[k].deletion_reason = DefaultReason
        /\ table[k].backup_location \in files }
\* r holds the record of w: every column but the id and created_at
SameRecord(r, w) ==
    /\ r.text = w.text /\ r.source = w.source /\ r.tags = w.tags
    /\ r.emotion = w.emotion /\ r.mood = w.mood /\ r.intensity = w.intensity
    /\ r.bit_worthy = w.bit_worthy /\ r.timestamp = w.timestamp

\* C13: no step takes a row out of the live table without appending, in the
\* same step, a tombstone with the row's id, text, reason and the path of a
\* backup that was written; no step takes a tombstone away without inserting a
\* live row that holds its record; and after every step each row ever
\* written is live or has such a tombstone, itself or the row a restore
\* wrote with its record under a later id.
C13_NoHardDelete ==
    [][/\ \A w \in interactions \ interactions' :
            /\ last'.op = "safe_delete_interaction" /\ last'.ret
            /\ Len(deleted_interactions') = Len(deleted_interactions) + 1
            /\ TombstonesOf(deleted_interactions', backups', w)
                 = { Len(deleted_interactions') }
       /\ \A k \in 1..Len(deleted_interactions) :
            (\A j \in 1..Len(deleted_interactions') :
                deleted_interactions'[j] /= deleted_interactions[k])
            => \E r \in interactions' \ interactions :
                 SameRecord(r, Original(deleted_interactions[k].id))
       /\ \A w \in written' :
            \E r \in written' :
              /\ r.id >= w.id /\ SameRecord(r, w)
              /\ \/ r \in interactions'
                 \/ TombstonesOf(deleted_interactions', backups', r) /= {}]_vars

\* C13 witness: a soft delete has returned True, and two rows that were
\* written are out of the live table, each with its tombstone
C13_Witness ==
    /\ IsSafeDelete
    /\ last.ret
    /\ \E w1, w2 \in written \ interactions :
         /\ w1.id /= w2.id
         /\ TombstonesOf(deleted_interactions, backups, w1) /= {}
         /\ TombstonesOf(deleted_interactions, backups, w2) /= {}

\* C14: after every step the table holds at most one row for a
\* (pattern_type, pattern_text), and a call of update_pattern_frequency leaves
\* exactly one row for its key, with frequency 1 when the key had no row and
\* one more than before when it had, and every other row as it was; so the
\* frequency of a key is the number of calls made for it.
C14_PatternUpsert ==
    [][/\ \A key \in PatternKeys : Cardinality(PatternRows(memory_patterns', key[1], key[2])) <= 1
       /\ last'.op = "update_pattern_frequency"
            => LET before == PatternRows(memory_patterns, last'.pattern_text,
                                         last'.pattern_type)
                   after == PatternRows(memory_patterns', last'.pattern_text,
                                        last'.pattern_type)
               IN  /\ Cardinality(after) = 1
                   /\ \A p \in after :
                        p.frequency = IF before = {} THEN 1
                                      ELSE (CHOOSE q \in before : TRUE).frequency + 1
                   /\ memory_patterns \ before = memory_patterns' \ after]_vars

\* C14 witness: update_pattern_frequency has been called three times for one
\* key and once for another, and each key has its one row
C14_Witness ==
    /\ last.op = "update_pattern_frequency"
    /\ Cardinality(memory_patterns) = 2
    /\ \E p \in memory_patterns : p.frequency = MaxFrequency /\ p.last_seen > p.first_seen
    /\ \E p \in memory_patterns : p.frequency = 1

IsGenerate == last.op = "generate_weekly_summary"

\* C15: after generate_weekly_summary has run for a week that has
\* interactions, weekly_summaries holds exactly one row for that week.
C15_OneSummaryPerWeek ==
    (IsGenerate /\ last.total_interactions > 0)
    => Cardinality({ k \in 1..Len(weekly_summaries) :
                       weekly_summaries[k].week_start = last.week_start }) = 1

\* C16: every row an INSERT INTO interactions writes gets a positive id above
\* every id written before, the ids of rows that have left the live table
\* included, and a call of add_interaction returns the id of the row it wrote,
\* which is then live.
C16_IdAssignment ==
    [][/\ \A r \in written' \ written :
            /\ r.id > 0
            /\ \A w \in written : w.id < r.id
       /\ last'.op = "add_interaction"
            => /\ last'.interaction_id > 0
               /\ \A w \in written : w.id < last'.interaction_id
               /\ \E r \in interactions' \ interactions : r.id = last'.interaction_id]_vars

\* C16 witness: add_interaction has returned an id while an id below it is
\* free: its row was soft-deleted
C16_Witness ==
    /\ last.op = "add_interaction"
    /\ \E w \in written \ interactions : w.id < last.interaction_id
    /\ \E r \in interactions : r.id = last.interaction_id
    /\ deleted_interactions /= << >>

\* the rows the keyword search of a find_similar_memories call selects
KeywordHits(query_text, emotion) ==
    { r \in interactions :
        /\ KeywordRow(r, query_text, TopicalDays)
        /\ Given(emotion) => (r.emotion = emotion \/ r.mood = emotion) }

\* C17: find_similar_memories always returns a list; when the index is
\* unavailable, or its query raised, the list is the keyword search's: keyword
\* entries only, each the text of a row the keyword query selects, as many as
\* the limit allows, and so the empty list when no row matches.
C17_SilentDegradation ==
    (pc = "returned" /\ IsFindSimilar /\ ~last.index_used)
    => LET hits == KeywordHits(last.query_text, last.emotion)
           n == Cardinality(hits)
       IN  /\ Len(last.result) = IF n < last.limit THEN n ELSE last.limit
           /\ \A i \in 1..Len(last.result) :
                /\ last.result[i].relevance_type = "keyword"
                /\ \E r \in hits : r.text = last.result[i].text
                                     /\ r.timestamp = last.result[i].timestamp

\* C17 witness: the index is loaded, its query raised, and the call returned
\* what the keyword search found
C17_Witness ==
    /\ pc = "returned"
    /\ IsFindSimilar
    /\ embedding_model /\ memory_collection
    /\ ~last.index_used
    /\ Len(last.result) > 0
    /\ last.result[1].relevance_type = "keyword"

\* C19: for a query of one word, the keyword search returns exactly the most
\* recent rows, as many as the limit allows, that lie inside the window, pass
\* the emotion filter and hold the word in their text when case is ignored.
C19_KeywordMembership ==
    (/\ pc = "returned" /\ IsFindSimilar /\ ~last.index_used
     /\ Len(QueryWords(last.query_text)) = 1)
    => LET word == QueryWords(last.query_text)[1]
           holding == { r \in interactions :
                          /\ WordInLower(r.text, word)
                          /\ r.timestamp >= now - Days(TopicalDays)
                          /\ Given(last.emotion)
                               => (r.emotion = last.emotion \/ r.mood = last.emotion) }
           expected == Limit(OrderByTimestampDesc(holding), last.limit)
       IN  /\ Len(last.result) = Len(expected)
           /\ \A i \in 1..Len(expected) : last.result[i].text = expected[i].text

\* C18: a call of add_interaction with an empty text, or with an intensity
\* outside 1..10, writes no row and takes no id.
C18_AppendValidation ==
    [][last'.op = "add_interaction"
         => \A r \in interactions' \ interactions :
              /\ r.text /= ""
              /\ r.intensity \in 1..10]_vars

IsBoundaries == last.op = "get_week_boundaries"

\* C20: get_week_boundaries returns a start on a Monday at 00:00:00 and an
\* end on the Sunday six days later at 23:59:59, and the target date lies
\* between the two.
C20_WeekBoundaries ==
    IsBoundaries
    => /\ last.week_start.day % DaysPerWeek = 0
       /\ last.week_start.second = 0 /\ last.week_start.microsecond = 0
       /\ last.week_end.day = last.week_start.day + WeekEndDays
       /\ last.week_end.second = SecondsPerDay - 1
       /\ DateLeq(last.week_start, last.target_date)
       /\ DateLeq(last.target_date, last.week_end)

\* the score the merged list is to be ranked by: the entry's similarity, and
\* one half for an entry that carries none
RankKey(e) == IF e.has_similarity THEN e.similarity ELSE SimScale \div 2

\* C21: the merged result of inject_context_memories is in descending order
\* of similarity, an entry of the emotion path, which carries no similarity,
\* counting as 0.5.
C21_SyntheticScoreRanking ==
    IsInject =>
        \A i, j \in 1..Len(last.relevant_memories) :
          i < j => RankKey(last.relevant_memories[i]) >= RankKey(last.relevant_memories[j])

\* C22: an entry of the merged result whose text both the topical and the
\* emotional path returned is the topical path's entry: it is one of the
\* topical list, carries a similarity, and is of semantic or keyword
\* provenance.
C22_MergePrecedence ==
    IsInject =>
        \A text \in Texts(last.topical_memories) \cap Texts(last.emotional_memories) :
          \A i \in 1..Len(last.relevant_memories) :
            last.relevant_memories[i].text = text
              => /\ \E k \in 1..Len(last.topical_memories) :
                      last.topical_memories[k] = last.relevant_memories[i]
                 /\ last.relevant_memories[i].has_similarity
                 /\ last.relevant_memories[i].relevance_type \in { "semantic", "keyword" }

\* C22 witness: a text came back from the embedding search and from the
\* emotion search, and the result holds its semantic entry
C22_Witness ==
    /\ IsInject
    /\ last.index_used
    /\ \E i \in 1..Len(last.relevant_memories) :
         /\ last.relevant_memories[i].text \in Texts(last.emotional_memories)
         /\ last.relevant_memories[i].relevance_type = "semantic"

\* C23: every semantic entry of a list find_similar_memories or
\* inject_context_memories returns has a similarity, after the conversion
\* from the distance and after the emotion penalty, of at least the topical
\* threshold.
C23_SimilarityThreshold ==
    (IsFindSimilar \/ IsInject) =>
        LET m == IF IsInject THEN last.relevant_memories ELSE last.result
        IN  \A i \in 1..Len(m) :
              m[i].relevance_type = "semantic" => m[i].similarity >= TopicalThreshold

\* C23 witness: find_similar_memories returned a document of another emotion
\* whose penalised similarity is the threshold itself
C23_Witness ==
    /\ IsFindSimilar
    /\ last.index_used
    /\ \E i \in 1..Len(last.result) :
         /\ last.result[i].relevance_type = "semantic"
         /\ last.result[i].emotion /= last.emotion
         /\ last.result[i].similarity = TopicalThreshold

\* C24: the list the keyword search returns gives each record the fraction of
\* the query's words its text holds, is ordered by that relevance, and leaves
\* out no matching record of higher relevance than one it returns.
C24_KeywordRelevanceOrder ==
    (pc = "returned" /\ IsInject /\ ~last.index_used)
    => LET words == QueryWords(last.current_text)
           m == last.topical_memories
       IN  /\ \A i \in 1..Len(m) : m[i].similarity = Relevance(m[i].text, words)
           /\ \A i, j \in 1..Len(m) : i < j => m[i].similarity >= m[j].similarity
           /\ \A r \in interactions :
                (KeywordRow(r, last.current_text, TopicalDays) /\ r.text \notin Texts(m))
                => \A i \in 1..Len(m) : m[i].similarity >= Relevance(r.text, words)

\* C25: with the default budget, which the best memory of the call fits
\* whole, the context generate_context_prompt returns holds that memory's
\* text whole.
C25_EntryBoundary ==
    (/\ IsPrompt
     /\ last.max_context_length = MaxContextLength
     /\ Len(last.memories) > 0
     /\ Len(last.query) + Len(last.memories[1].text) <= last.max_context_length)
    => StrContains(last.prompt, last.memories[1].text)

\* C26: once emergency_lockdown has run, which leaves protection_enabled
\* False, a call of safe_delete_interaction takes no row out of the live
\* table and does not return True.
C26_LockdownRefusesDelete ==
    [][(last'.op = "safe_delete_interaction" /\ ~protection_enabled)
         => (interactions \subseteq interactions' /\ ~last'.ret)]_vars

\* a call of safe_delete_interaction or of a function under safe_delete_wrapper
DeleteCallOp(op) == op \in { "safe_delete_interaction", "safe_delete_wrapper" }

\* C27: a step takes a row out of the live table only as a call of
\* safe_delete_interaction, or of a function under safe_delete_wrapper, that
\* has written its backup copy, the backup file of the call's second being
\* there; a call whose backup copy failed takes no row out.
C27_BackupBeforeDelete ==
    [][/\ interactions \ interactions' /= {}
            => /\ DeleteCallOp(last'.op)
               /\ last'.backup_written
               /\ \E b \in backups' : b.t = now
       /\ (DeleteCallOp(last'.op) /\ ~last'.backup_written)
            => (interactions' = interactions /\ backups' = backups)]_vars

\* C27 witness: a function under safe_delete_wrapper has taken a row out of
\* the live table, and the backup of prevent_bulk_delete is there
C27_Witness ==
    /\ last.op = "safe_delete_wrapper"
    /\ last.backup_written
    /\ \E w \in written \ interactions : w.id = last.interaction_id
    /\ \E b \in backups : b.prefix = "emergency_bulk_protection"

\* C28: update_copilot_context(force_update=False) skips the write and returns
\* False when the context file exists and is less than 6 hours old, and
\* rewrites the file and returns True when the file is at least 6 hours old or
\* absent; with force_update=True it always rewrites the file and returns
\* True.  A call whose write to the file system failed is left aside.
ContextRewritten ==
    /\ last'.ret = TRUE
    /\ context_file' = [exists |-> TRUE, mtime |-> now,
                        content |-> GenerateCopilotContext(interactions, now)]
C28_RefreshThrottle ==
    [][(last'.op = "update_copilot_context" /\ last'.raised_inside /= "OSError")
          => IF ~last'.force_update /\ context_file.exists
                 /\ AgeHours(context_file, now) < ThrottleHours
             THEN last'.ret = FALSE /\ context_file' = context_file
             ELSE ContextRewritten]_vars

\* the texts the retrieval call that returned last handed back
RetrievedTexts ==
    IF IsInject THEN Texts(last.relevant_memories)
    ELSE IF IsFindSimilar THEN Texts(last.result)
    ELSE {}
\* C29: while a soft-deleted record stays deleted (its tombstone is in
\* deleted_interactions), no document of the index references its id and no
\* retrieval returns an entry with its text
C29_DeletedNotRetrieved ==
    \A k \in 1..Len(deleted_interactions) :
        /\ \A d \in collection : d.interaction_id /= deleted_interactions[k].id
        /\ deleted_interactions[k].original_text \notin RetrievedTexts

\* the calls for a key that have returned, and the calls for it under way
CompletedCalls(key) == updaters["first"].done[key] + updaters["second"].done[key]
InFlight(key) ==
    \E c \in Callers : /\ updaters[c].pc = "selected"
                       /\ << updaters[c].pattern_text, updaters[c].pattern_type >> = key
\* C30: whenever no update_pattern_frequency call for a key is under way, and
\* however the statements of earlier calls for it were interleaved, the table
\* holds exactly one row for the key, with a frequency equal to the number of
\* calls for the key that have returned (none yet: no row)
C30_ConcurrentUpdates ==
    \A key \in PatternKeys :
        ~InFlight(key) =>
            LET rows == PatternRows(memory_patterns, key[1], key[2])
            IN  IF CompletedCalls(key) = 0 THEN rows = {}
                ELSE /\ Cardinality(rows) = 1
                     /\ \A p \in rows : p.frequency = CompletedCalls(key)

====
